---------------------------- MODULE Spec2Model ----------------------------
(***************************************************************************)
(* Model of the two revenue loaders of the repository:                     *)
(*   Actual_Revenue.py   - one workbook, truncate-at-last-match, calendar  *)
(*                         completion by MultiIndex reindex, no try/except *)
(*   Estimate_Revenue.py - every workbook of a folder, filter-all-matches, *)
(*                         one try/except around each file                 *)
(* Strings are tuples of one-character strings, so that strip, split, the  *)
(* revenue-code pattern and the year search are computed, not assumed.     *)
(***************************************************************************)
EXTENDS Integers, Sequences, FiniteSets, TLC

VARIABLES prog, excel_files, i, pc, month_cols, df, df_melted, extracted_year, df_final, sink, out, exc

vars == <<prog, excel_files, i, pc, month_cols, df, df_melted, extracted_year, df_final, sink, out, exc>>

-----------------------------------------------------------------------------
(* Bounds of the model *)

\* rows of one worksheet below the header row
MaxRows == 2

\* workbooks found in the Estimate folder
MaxFiles == 2

-----------------------------------------------------------------------------
(* Characters and strings *)

DigitChars == <<"0", "1", "2", "3", "4", "5", "6", "7", "8", "9">>

IsDigit(c) == \E d \in 1..10 : DigitChars[d] = c

DigitVal(c) == (CHOOSE d \in 1..10 : DigitChars[d] = c) - 1

\* str.strip() and str.split() with no argument act on whitespace
IsSpace(c) == c \in {" ", "\t", "\n"}

Min(S) == CHOOSE x \in S : \A y \in S : x <= y

Max(S) == CHOOSE x \in S : \A y \in S : y <= x

\* the t-th smallest member of a set of positions
Nth(S, t) == CHOOSE x \in S : Cardinality({y \in S : y < x}) = t - 1

\* str.strip(): from the first to the last character that is not whitespace
StripStr(s) ==
    LET inked == {k \in 1..Len(s) : ~IsSpace(s[k])}
    IN  IF inked = {} THEN <<>> ELSE SubSeq(s, Min(inked), Max(inked))

\* str.split(): the maximal runs of non-whitespace characters, left to right
Split(s) ==
    LET starts == {k \in 1..Len(s) : ~IsSpace(s[k]) /\ (k = 1 \/ IsSpace(s[k - 1]))}
        ends   == {k \in 1..Len(s) : ~IsSpace(s[k]) /\ (k = Len(s) \/ IsSpace(s[k + 1]))}
    IN  [t \in 1..Cardinality(starts) |-> SubSeq(s, Nth(starts, t), Nth(ends, t))]

\* str(n) of a non-negative integer
RECURSIVE IntToStr(_)
IntToStr(n) ==
    IF n < 10 THEN <<DigitChars[n + 1]>>
    ELSE Append(IntToStr(n \div 10), DigitChars[(n % 10) + 1])

\* int(s) of a non-empty string of digits
RECURSIVE StrToInt(_)
StrToInt(s) ==
    IF Len(s) = 1 THEN DigitVal(s[1])
    ELSE 10 * StrToInt(SubSeq(s, 1, Len(s) - 1)) + DigitVal(s[Len(s)])

AllDigits(s) == s # <<>> /\ \A k \in 1..Len(s) : IsDigit(s[k])

-----------------------------------------------------------------------------
(* Cells of a worksheet: a string, a number or a blank (NaN / pd.NA) *)

Str(s) == [k |-> "str", s |-> s, n |-> 0]

Num(n) == [k |-> "num", s |-> <<>>, n |-> n]

NA == [k |-> "na", s |-> <<>>, n |-> 0]

IsNA(c) == c.k = "na"

\* Series.astype(str): a blank becomes the text "nan", a number its digits
AsStr(c) ==
    CASE c.k = "str" -> c.s
      [] c.k = "num" -> IntToStr(c.n)
      [] OTHER -> <<"n", "a", "n">>

\* re.compile(r"^\d{4}\.\d{2}\.\d{2}$") with Series.str.match: anchored at the
\* start; "$" also accepts one trailing newline
MatchPattern(s) ==
    /\ Len(s) \in {10, 11}
    /\ \A k \in {1, 2, 3, 4, 6, 7, 9, 10} : IsDigit(s[k])
    /\ s[5] = "." /\ s[8] = "."
    /\ Len(s) = 11 => s[11] = "\n"

\* df.iloc[:, 0].astype(str).str.match(pattern, na=False)
IsRevenueCode(c) == MatchPattern(AsStr(c))

-----------------------------------------------------------------------------
(* Sections 3/4: row validation *)

MatchingRows(rows) == {r \in 1..Len(rows) : IsRevenueCode(rows[r].code)}

\* Actual: valid_rows.index[-1], then df.loc[:last_index] (label slice, inclusive)
TruncateAtLastMatch(rows) == SubSeq(rows, 1, Max(MatchingRows(rows)))

IsRevenueRow(row) == IsRevenueCode(row.code)

\* Estimate: df[df[col].astype(str).str.match(pattern, na=False)]
FilterAllMatches(rows) == SelectSeq(rows, IsRevenueRow)

-----------------------------------------------------------------------------
(* Sections 4/5: value cleaning *)

\* df.replace("-", pd.NA): only a cell that IS the text "-" is replaced
ReplaceSentinel(c) == IF c = Str(<<"-">>) THEN NA ELSE c

\* df.map(lambda x: x.strip() if isinstance(x, str) else x)
StripCell(c) == IF c.k = "str" THEN Str(StripStr(c.s)) ELSE c

\* replace, then strip, in the order of the source
CleanCell(c) == StripCell(ReplaceSentinel(c))

\* df.iloc[:, 1] = df.iloc[:, 1].fillna(df.iloc[:, 0])
FillSource(row) == IF IsNA(row.source) THEN [row EXCEPT !.source = row.code] ELSE row

CleanRow(row) ==
    FillSource([code   |-> CleanCell(row.code),
                source |-> CleanCell(row.source),
                vals   |-> [j \in 1..Len(row.vals) |-> CleanCell(row.vals[j])]])

CleanValues(rows) == [r \in 1..Len(rows) |-> CleanRow(rows[r])]

-----------------------------------------------------------------------------
(* Section 6: melt. pandas stacks the value columns one after the other, each *)
(* column over all rows.                                                     *)

MeltCell(cols, rows, k) ==
    LET n == Len(rows)
        j == ((k - 1) \div n) + 1
        r == ((k - 1) % n) + 1
    IN  [code   |-> rows[r].code,
         source |-> rows[r].source,
         month  |-> cols[j],
         value  |-> rows[r].vals[j],
         year   |-> 0,
         date   |-> <<>>]

Melt(cols, rows) == [k \in 1..(Len(cols) * Len(rows)) |-> MeltCell(cols, rows, k)]

-----------------------------------------------------------------------------
(* Section 7: year from the file name *)

\* re.search(r"(\d{4})", file_name): the leftmost position where four
\* digits stand in a row; 0 when there is none
YearStarts(name) ==
    {p \in 1..(Len(name) - 3) : \A q \in p..(p + 3) : IsDigit(name[q])}

HasYear(name) == YearStarts(name) # {}

\* int(match.group(1))
ExtractYear(name) == StrToInt(SubSeq(name, Min(YearStarts(name)), Min(YearStarts(name)) + 3))

\* Actual: df_melted["Date"] = Year.astype(str) + " " + Month.astype(str)
WithYearDate(long, y) ==
    [k \in 1..Len(long) |->
        [long[k] EXCEPT !.year = y, !.date = IntToStr(y) \o <<" ">> \o long[k].month]]

\* Estimate: df_melted["Year"] = extracted_year
WithYear(long, y) == [k \in 1..Len(long) |-> [long[k] EXCEPT !.year = y]]

-----------------------------------------------------------------------------
(* Actual, section 9: twelve months for every code *)

month_order ==
    << <<"J", "a", "n", "u", "a", "r", "y">>, <<"F", "e", "b", "r", "u", "a", "r", "y">>, <<"M", "a", "r", "c", "h">>, <<"A", "p", "r", "i", "l">>, <<"M", "a", "y">>, <<"J", "u", "n", "e">>,
       <<"J", "u", "l", "y">>, <<"A", "u", "g", "u", "s", "t">>, <<"S", "e", "p", "t", "e", "m", "b", "e", "r">>, <<"O", "c", "t", "o", "b", "e", "r">>, <<"N", "o", "v", "e", "m", "b", "e", "r">>, <<"D", "e", "c", "e", "m", "b", "e", "r">> >>

\* df_final["Date"].str.split().str[1]; an index past the tokens gives a blank,
\* written here as the empty label
MonthOfDate(date) == IF Len(Split(date)) >= 2 THEN Split(date)[2] ELSE <<>>

\* df_final["Revenue Code"].unique(): first occurrences, in order
unique_codes(long) ==
    LET firsts == {k \in 1..Len(long) : \A j \in 1..(k - 1) : long[j].code # long[k].code}
    IN  [t \in 1..Cardinality(firsts) |-> long[Nth(firsts, t)].code]

IndexKey(rec) == <<rec.code, MonthOfDate(rec.date)>>

\* set_index(["Revenue Code", "Month"]): the label of every row
IndexLabels(long) == {<<k, IndexKey(long[k])>> : k \in 1..Len(long)}

\* reindex raises on an index that holds a label twice
HasDuplicateLabels(long) ==
    Cardinality({IndexKey(long[k]) : k \in 1..Len(long)}) < Len(long)

\* One row of the code x month template. A label found in the index carries the
\* row over; any other gets blanks. Whether a blank code finds itself in the
\* index is pandas' choice (naMatch).
ReindexRow(long, labels, code, month, y, naMatch) ==
    LET hits == {l \in labels : l[2] = <<code, month>> /\ (IsNA(code) => naMatch)}
    IN  IF hits = {}
        THEN [year |-> y, month |-> month, code |-> code, source |-> NA, value |-> NA]
        ELSE LET k == (CHOOSE h \in hits : TRUE)[1]
             IN  [year |-> y, month |-> month, code |-> code,
                  source |-> long[k].source, value |-> long[k].value]

\* set_index(...).reindex(reindex_template).reset_index(), then Year again
EnsureAllMonths(long, y, naMatch) ==
    LET codes == unique_codes(long)
        labels == IndexLabels(long)
        m == Len(month_order)
    IN  [k \in 1..(Len(codes) * m) |->
            ReindexRow(long, labels, codes[((k - 1) \div m) + 1],
                       month_order[((k - 1) % m) + 1], y, naMatch)]

\* Estimate, section 8: the five columns, as they are
FinalStructure(long) ==
    [k \in 1..Len(long) |->
        [year |-> long[k].year, month |-> long[k].month, code |-> long[k].code,
         source |-> long[k].source, value |-> long[k].value]]

-----------------------------------------------------------------------------
(* Numeric conversion: pd.to_numeric(errors="coerce") *)

\* a number stays; a text that reads as an integer becomes it; the rest is blank
ToNumeric(c) ==
    CASE c.k = "num" -> c
      [] c.k = "str" /\ AllDigits(c.s) -> Num(StrToInt(c.s))
      [] c.k = "str" /\ Len(c.s) >= 2 /\ c.s[1] = "-" /\ AllDigits(Tail(c.s))
            -> Num(0 - StrToInt(Tail(c.s)))
      [] OTHER -> NA

Coerce(recs) == [k \in 1..Len(recs) |-> [recs[k] EXCEPT !.value = ToNumeric(@)]]

-----------------------------------------------------------------------------
(* Inputs: file names and workbooks *)

\* read_excel(header=3, usecols="A:N" / "A,B,D:O"): two fixed columns and twelve
\* month columns
NumMonthCols == 12

FileNames ==
    { <<"2", "0", "2", "1", " ", "R", "e", "p", "o", "r", "t", ".", "x", "l", "s", "x">>, <<"R", "e", "p", "o", "r", "t", ".", "x", "l", "s", "x">>, <<"1", "2", "3", "4", "5", " ", "2", "0", "2", "1", ".", "x", "l", "s", "x">> }

Code1 == Str(<<"1", "0", "0", "0", ".", "0", "1", ".", "0", "1">>)

Code2 == Str(<<"2", "0", "0", "0", ".", "0", "5", ".", "1", "0">>)

CodeCells == {Code1, Code2, Str(<<"T", "O", "T", "A", "L">>), NA}

SourceCells == {Str(<<"S", "a", "l", "e", "s">>), NA, Str(<<" ", "-">>)}

\* the month cells of one row: numbers, the sentinel, a padded sentinel, a
\* number typed as text, a note, blanks
MixedValues ==
    << Num(100), Str(<<"-">>), Num(300), Str(<<" ", "-", " ">>), Str(<<"1", "5", "0">>), Str(<<"n", "/", "a">>),
       NA, Num(0), Str(<<" ", "7", " ">>), Num(12), NA, Num(5) >>

PlainValues == [j \in 1..NumMonthCols |-> Num(200 + j)]

ValueRows == {MixedValues, PlainValues}

\* header rows as typed in the sheet: the month names with stray blanks, or
\* three-letter abbreviations
FullHeaders ==
    << <<"J", "a", "n", "u", "a", "r", "y">>, <<" ", "F", "e", "b", "r", "u", "a", "r", "y">>, <<"M", "a", "r", "c", "h", " ">>, <<"A", "p", "r", "i", "l">>, <<"M", "a", "y">>, <<"J", "u", "n", "e">>,
       <<"J", "u", "l", "y">>, <<"A", "u", "g", "u", "s", "t">>, <<"S", "e", "p", "t", "e", "m", "b", "e", "r">>, <<"O", "c", "t", "o", "b", "e", "r">>, <<"N", "o", "v", "e", "m", "b", "e", "r">>, <<" ", "D", "e", "c", "e", "m", "b", "e", "r", " ">> >>

ShortHeaders ==
    << <<"J", "a", "n">>, <<"F", "e", "b">>, <<"M", "a", "r">>, <<"A", "p", "r">>, <<"M", "a", "y">>, <<"J", "u", "n">>,
       <<"J", "u", "l">>, <<"A", "u", "g">>, <<"S", "e", "p">>, <<"O", "c", "t">>, <<"N", "o", "v">>, <<"D", "e", "c">> >>

HeaderRows == {FullHeaders, ShortHeaders}

RowSet == [code : CodeCells, source : SourceCells, vals : ValueRows]

SeqsUpTo(S, n) == UNION {[1..m -> S] : m \in 0..n}

\* a workbook pandas cannot read
Corrupt == [ok |-> FALSE, cols |-> <<>>, rows |-> <<>>]

Book(cols, rows) == [ok |-> TRUE, cols |-> cols, rows |-> rows]

Books ==
    {Corrupt} \cup {Book(c, r) : c \in HeaderRows, r \in SeqsUpTo(RowSet, MaxRows)}

\* the workbooks of the folder runs: a clean one, one with a title row and a
\* blank source, one without any revenue row, one that lists a code twice
\* under abbreviated headers, one that cannot be read
CleanBook ==
    Book(FullHeaders, <<[code |-> Code1, source |-> Str(<<"S", "a", "l", "e", "s">>), vals |-> MixedValues]>>)

TitledBook ==
    Book(FullHeaders, <<[code |-> Str(<<"T", "O", "T", "A", "L">>), source |-> NA, vals |-> PlainValues],
                        [code |-> Code2, source |-> NA, vals |-> PlainValues]>>)

NoRevenueBook ==
    Book(FullHeaders, <<[code |-> Str(<<"T", "O", "T", "A", "L">>), source |-> NA, vals |-> PlainValues]>>)

DoubledBook ==
    Book(ShortHeaders, <<[code |-> Code1, source |-> Str(<<"S", "a", "l", "e", "s">>), vals |-> PlainValues],
                         [code |-> Code1, source |-> Str(<<" ", "-">>), vals |-> MixedValues]>>)

FolderBooks == {CleanBook, TitledBook, NoRevenueBook, DoubledBook, Corrupt}

File(name, book) == [name |-> name, book |-> book]

\* os.listdir: distinct names
Listings ==
    {l \in SeqsUpTo(FileNames, MaxFiles) : \A a, b \in 1..Len(l) : a # b => l[a] # l[b]}

\* df.columns = df.columns.str.strip(), the month columns of it
StripColumns(cols) == [j \in 1..Len(cols) |-> StripStr(cols[j])]

-----------------------------------------------------------------------------
(* Program output *)

Event(ev, file, msg, n) == [ev |-> ev, file |-> file, msg |-> msg, n |-> n]

file_name == excel_files[i].name

-----------------------------------------------------------------------------
(* Initial states *)

Fresh ==
    /\ month_cols = <<>> /\ df = <<>> /\ df_melted = <<>> /\ extracted_year = 0 /\ df_final = <<>>
    /\ sink = <<>> /\ out = <<>> /\ exc = ""

\* one workbook, loaded by either script; the Actual script names its file
\* in file_path
InitSingle ==
    /\ prog \in {"Actual", "Estimate"}
    /\ \E n \in FileNames, b \in Books : excel_files = <<File(n, b)>>
    /\ i = IF prog = "Actual" THEN 1 ELSE 0
    /\ pc = IF prog = "Actual" THEN "read" ELSE "start"
    /\ Fresh

\* the Estimate script over a folder of workbooks, and the Actual script over
\* one of the same workbooks
InitFolder ==
    /\ \/ /\ prog = "Estimate"
          /\ \E l \in Listings : \E bs \in [1..Len(l) -> FolderBooks] :
                excel_files = [k \in 1..Len(l) |-> File(l[k], bs[k])]
          /\ i = 0 /\ pc = "start"
       \/ /\ prog = "Actual"
          /\ \E n \in FileNames, b \in FolderBooks : excel_files = <<File(n, b)>>
          /\ i = 1 /\ pc = "read"
    /\ Fresh

Init == InitSingle

-----------------------------------------------------------------------------
(* Steps *)

\* an exception: caught by the per-file try of the Estimate loop, fatal in the
\* Actual script
Raise(msg) ==
    /\ pc' = IF prog = "Estimate" THEN "except" ELSE "crashed"
    /\ exc' = msg

CheckFiles ==
    /\ prog = "Estimate" /\ pc = "start"
    /\ IF excel_files = <<>>
       THEN pc' = "aborted" /\ exc' = "No Excel files found in folder."
       ELSE pc' = "loop" /\ exc' = exc
    /\ UNCHANGED <<prog, excel_files, i, month_cols, df, df_melted, extracted_year, df_final, sink, out>>

ForNext ==
    /\ prog = "Estimate" /\ pc = "loop" /\ i < Len(excel_files)
    /\ i' = i + 1
    /\ out' = Append(out, Event("processing", excel_files[i + 1].name, "", 0))
    /\ pc' = "read"
    /\ UNCHANGED <<prog, excel_files, month_cols, df, df_melted, extracted_year, df_final, sink, exc>>

AllProcessed ==
    /\ prog = "Estimate" /\ pc = "loop" /\ i = Len(excel_files)
    /\ out' = Append(out, Event("all processed", <<>>, "", 0))
    /\ pc' = "done"
    /\ UNCHANGED <<prog, excel_files, i, month_cols, df, df_melted, extracted_year, df_final, sink, exc>>

ReadExcel ==
    /\ pc = "read" /\ excel_files[i].book.ok
    /\ month_cols' = StripColumns(excel_files[i].book.cols)
    /\ df' = excel_files[i].book.rows
    /\ pc' = "valid"
    /\ UNCHANGED <<prog, excel_files, i, df_melted, extracted_year, df_final, sink, out, exc>>

ReadExcelFails ==
    /\ pc = "read" /\ ~excel_files[i].book.ok
    /\ Raise("cannot read workbook")
    /\ UNCHANGED <<prog, excel_files, i, month_cols, df, df_melted, extracted_year, df_final, sink, out>>

ValidRowsActual ==
    /\ prog = "Actual" /\ pc = "valid" /\ MatchingRows(df) # {}
    /\ df' = TruncateAtLastMatch(df)
    /\ pc' = "clean"
    /\ UNCHANGED <<prog, excel_files, i, month_cols, df_melted, extracted_year, df_final, sink, out, exc>>

\* valid_rows.index[-1] of an empty index
ValidRowsActualFails ==
    /\ prog = "Actual" /\ pc = "valid" /\ MatchingRows(df) = {}
    /\ Raise("IndexError: index -1 is out of bounds")
    /\ UNCHANGED <<prog, excel_files, i, month_cols, df, df_melted, extracted_year, df_final, sink, out>>

FilterEstimate ==
    /\ prog = "Estimate" /\ pc = "valid"
    /\ df' = FilterAllMatches(df)
    /\ pc' = "clean"
    /\ UNCHANGED <<prog, excel_files, i, month_cols, df_melted, extracted_year, df_final, sink, out, exc>>

Clean ==
    /\ pc = "clean"
    /\ df' = CleanValues(df)
    /\ pc' = "melt"
    /\ UNCHANGED <<prog, excel_files, i, month_cols, df_melted, extracted_year, df_final, sink, out, exc>>

MeltMonths ==
    /\ pc = "melt"
    /\ df_melted' = Melt(month_cols, df)
    /\ pc' = "year"
    /\ UNCHANGED <<prog, excel_files, i, month_cols, df, extracted_year, df_final, sink, out, exc>>

AddYear ==
    /\ pc = "year" /\ HasYear(file_name)
    /\ extracted_year' = ExtractYear(file_name)
    /\ df_melted' = IF prog = "Actual" THEN WithYearDate(df_melted, extracted_year')
                 ELSE WithYear(df_melted, extracted_year')
    /\ pc' = IF prog = "Actual" THEN "months" ELSE "coerce"
    /\ UNCHANGED <<prog, excel_files, i, month_cols, df, df_final, sink, out, exc>>

AddYearFails ==
    /\ pc = "year" /\ ~HasYear(file_name)
    /\ Raise("No year found in filename")
    /\ UNCHANGED <<prog, excel_files, i, month_cols, df, df_melted, extracted_year, df_final, sink, out>>

EnsureMonths ==
    /\ prog = "Actual" /\ pc = "months" /\ ~HasDuplicateLabels(df_melted)
    /\ \E naMatch \in BOOLEAN : df_final' = EnsureAllMonths(df_melted, extracted_year, naMatch)
    /\ pc' = "coerce"
    /\ UNCHANGED <<prog, excel_files, i, month_cols, df, df_melted, extracted_year, sink, out, exc>>

EnsureMonthsFails ==
    /\ prog = "Actual" /\ pc = "months" /\ HasDuplicateLabels(df_melted)
    /\ Raise("cannot reindex on an axis with duplicate labels")
    /\ UNCHANGED <<prog, excel_files, i, month_cols, df, df_melted, extracted_year, df_final, sink, out>>

CoerceValues ==
    /\ pc = "coerce"
    /\ df_final' = Coerce(IF prog = "Actual" THEN df_final ELSE FinalStructure(df_melted))
    /\ pc' = "load"
    /\ UNCHANGED <<prog, excel_files, i, month_cols, df, df_melted, extracted_year, sink, out, exc>>

\* to_sql(if_exists="append") writes the whole frame in one transaction
LoadSql ==
    /\ pc = "load"
    /\ sink' = sink \o df_final
    /\ out' = Append(out, Event("loaded", file_name, "", Len(df_final)))
    /\ pc' = IF prog = "Estimate" THEN "loop" ELSE "done"
    /\ UNCHANGED <<prog, excel_files, i, month_cols, df, df_melted, extracted_year, df_final, exc>>

\* a write that is not rolled back: the first row stays in the table
LoadSqlFailsPartial ==
    /\ pc = "load"
    /\ sink' = sink \o (IF df_final = <<>> THEN <<>> ELSE <<df_final[1]>>)
    /\ Raise("write rejected")
    /\ UNCHANGED <<prog, excel_files, i, month_cols, df, df_melted, extracted_year, df_final, out>>

\* the store rejects the write; the transaction leaves nothing behind
LoadSqlFails ==
    /\ pc = "load"
    /\ Raise("write rejected")
    /\ UNCHANGED <<prog, excel_files, i, month_cols, df, df_melted, extracted_year, df_final, sink, out>>

\* a handler that reports the failure and leaves the loop
ExceptBreaks ==
    /\ prog = "Estimate" /\ pc = "except"
    /\ out' = Append(out, Event("failed", file_name, exc, 0))
    /\ i' = Len(excel_files)
    /\ pc' = "loop"
    /\ UNCHANGED <<prog, excel_files, month_cols, df, df_melted, extracted_year, df_final, sink, exc>>

\* except Exception as e: print(f"Failed processing {file_name}: {e}")
Except ==
    /\ prog = "Estimate" /\ pc = "except"
    /\ out' = Append(out, Event("failed", file_name, exc, 0))
    /\ pc' = "loop"
    /\ UNCHANGED <<prog, excel_files, i, month_cols, df, df_melted, extracted_year, df_final, sink, exc>>

Next ==
    \/ CheckFiles
    \/ ForNext
    \/ AllProcessed
    \/ ReadExcel
    \/ ReadExcelFails
    \/ ValidRowsActual
    \/ ValidRowsActualFails
    \/ FilterEstimate
    \/ Clean
    \/ MeltMonths
    \/ AddYear
    \/ AddYearFails
    \/ EnsureMonths
    \/ EnsureMonthsFails
    \/ CoerceValues
    \/ LoadSql
    \/ LoadSqlFails
    \/ Except

Spec == Init /\ [][Next]_vars

FolderSpec == InitFolder /\ [][Next]_vars

\* the scripts are sequential and every library call returns: a step that can
\* be taken is taken
FairFolderSpec == FolderSpec /\ WF_vars(Next)

-----------------------------------------------------------------------------
(* What the run has printed, and what one Estimate file yields *)

Reported(ev, name) == \E e \in 1..Len(out) : out[e].ev = ev /\ out[e].file = name

CountReported(evs, name) ==
    Cardinality({e \in 1..Len(out) : out[e].ev \in evs /\ out[e].file = name})

IsProcessing(e) == e.ev = "processing"

Attempted == SelectSeq(out, IsProcessing)

\* sections 3 to 8 of the Estimate loop body on one readable, dated workbook
EstimateRows(f) ==
    Coerce(FinalStructure(WithYear(
        Melt(StripColumns(f.book.cols), CleanValues(FilterAllMatches(f.book.rows))),
        ExtractYear(f.name))))

\* the rows of the first n files, those reported as failed left out
RECURSIVE RowsOfLoaded(_)
RowsOfLoaded(n) ==
    IF n = 0 THEN <<>>
    ELSE RowsOfLoaded(n - 1) \o
         (IF Reported("loaded", excel_files[n].name) THEN EstimateRows(excel_files[n]) ELSE <<>>)

AtSink == pc = "load"

-----------------------------------------------------------------------------
(* Claims *)

\* C1: every record handed to the sink has a RevenueCode matching the
\* pattern, under both row-selection policies, and a source row whose first
\* column fails the pattern contributes no record.
C1_EmittedCodesMatch ==
    AtSink =>
        /\ \A k \in 1..Len(df_final) :
              df_final[k].code.k = "str" /\ MatchPattern(df_final[k].code.s)
        /\ \A r \in 1..Len(excel_files[i].book.rows) :
              ~IsRevenueCode(excel_files[i].book.rows[r].code) =>
                  \A k \in 1..Len(df_final) :
                      df_final[k].code # CleanCell(excel_files[i].book.rows[r].code)

\* C2: for every RevenueCode present after row validation the table handed to
\* the sink holds exactly 12 records, one per canonical month, and no
\* (RevenueCode, Month) pair twice, in both pipelines.
C2_TwelveMonthsPerCode ==
    AtSink =>
        \A r \in 1..Len(df) :
            /\ Cardinality({k \in 1..Len(df_final) : df_final[k].code = df[r].code})
                  = Len(month_order)
            /\ \A m \in 1..Len(month_order) :
                  Cardinality({k \in 1..Len(df_final) :
                      df_final[k].code = df[r].code /\ df_final[k].month = month_order[m]}) = 1

\* C3 at the end of the loop: every file attempted exactly once in list
\* order, every failure recorded with file name and message, and the sink
\* holds exactly the rows of the files that did not fail.
C3_AtDone ==
    (prog = "Estimate" /\ pc = "done") =>
        /\ Len(Attempted) = Len(excel_files)
        /\ \A k \in 1..Len(excel_files) : Attempted[k].file = excel_files[k].name
        /\ \A k \in 1..Len(excel_files) :
              /\ (~excel_files[k].book.ok \/ ~HasYear(excel_files[k].name))
                    => Reported("failed", excel_files[k].name)
              /\ Reported("failed", excel_files[k].name) <=> ~Reported("loaded", excel_files[k].name)
              /\ CountReported({"loaded", "failed"}, excel_files[k].name) = 1
        /\ \A e \in 1..Len(out) : out[e].ev = "failed" => out[e].msg # ""
        /\ sink = RowsOfLoaded(Len(excel_files))

\* C3: in the Estimate loop each file is attempted exactly once in list order,
\* each failure is recorded, no failure keeps a later file from being
\* attempted, the run always reaches "all files processed", and the sink ends
\* with exactly the rows of the files that did not fail.
C3_FailureIsolation ==
    /\ []C3_AtDone
    /\ (prog = "Estimate" /\ pc = "loop") ~> (pc = "done")

\* C3 witness: the run is over, a file failed and a later file was loaded.
C3_Witness ==
    /\ prog = "Estimate" /\ pc = "done"
    /\ \E a, b \in 1..Len(excel_files) :
          /\ a < b
          /\ Reported("failed", excel_files[a].name)
          /\ Reported("loaded", excel_files[b].name)
          /\ EstimateRows(excel_files[b]) # <<>>

\* C4, the state part: the sink holds whole files only.
C4_WholeFiles == prog = "Estimate" => sink = RowsOfLoaded(i)

\* C4, one step of the Estimate run.
C4_Step ==
    prog = "Estimate" =>
        /\ sink' # sink => pc = "load" /\ pc' = "loop"
        /\ pc' = "load" =>
              /\ excel_files[i].book.ok /\ HasYear(excel_files[i].name)
              /\ df_final' = EstimateRows(excel_files[i])
              /\ CountReported({"loaded", "failed"}, excel_files[i].name) = 0
        /\ pc' = "except" => sink' = sink
        /\ pc' = "read" =>
              \A k \in 1..i : CountReported({"loaded", "failed"}, excel_files[k].name) = 1

\* C4: per file the sink is invoked at most once, only after every stage has
\* succeeded and before the next file is read; a failing file leaves the sink
\* unchanged, so at every point each file is fully loaded or absent.
C4_AllOrNothing == []C4_WholeFiles /\ [][C4_Step]_vars

\* C4 witness: the store rejected a file after an earlier file was loaded.
C4_Witness ==
    /\ prog = "Estimate" /\ pc = "except" /\ exc = "write rejected"
    /\ sink # <<>> /\ df_final # <<>>

\* C5: a file without any row matching the pattern fails with a validation
\* error before the sink is invoked; no empty table is handed over and the
\* file is not reported as loaded.
C5_NoRevenueRowsFails ==
    \A k \in 1..Len(excel_files) :
        (k = i /\ (AtSink \/ Reported("loaded", excel_files[k].name)))
            => MatchingRows(excel_files[k].book.rows) # {}

\* C6: every record handed to the sink has a non-missing RevenueSource,
\* calendar-completed records and rows kept by truncation included.
C6_SourceNeverMissing ==
    AtSink => \A k \in 1..Len(df_final) : ~IsNA(df_final[k].source)

\* C7: every (code, month, value) triple of the validated wide table, the
\* month being the stripped column header, is in the table handed to the sink
\* with its value, up to numeric coercion.
C7_RoundTrip ==
    AtSink =>
        \A r \in 1..Len(df) : \A j \in 1..Len(month_cols) :
            IsRevenueCode(df[r].code) =>
                \E k \in 1..Len(df_final) :
                    /\ df_final[k].code = df[r].code
                    /\ df_final[k].month = month_cols[j]
                    /\ df_final[k].value = ToNumeric(df[r].vals[j])

\* the starts of the maximal digit runs of length exactly four
ExactRunStarts(name) ==
    {p \in YearStarts(name) :
        /\ p = 1 \/ ~IsDigit(name[p - 1])
        /\ p + 4 > Len(name) \/ ~IsDigit(name[p + 4])}

\* C8: the Year of every record of a file is the first maximal run of exactly
\* four digits of its name; a name without such a run fails the file and no
\* record is emitted.
C8_YearIsExactRun ==
    (pc \in {"months", "coerce", "load"}) =>
        /\ ExactRunStarts(excel_files[i].name) # {}
        /\ extracted_year = StrToInt(SubSeq(excel_files[i].name, Min(ExactRunStarts(excel_files[i].name)),
                                  Min(ExactRunStarts(excel_files[i].name)) + 3))

\* C9: after cleaning, no cell whose stripped text is the sentinel "-" is left
\* in any column, so a padded sentinel in the source column has given way to
\* the RevenueCode.
C9_PaddedSentinelIsMissing ==
    pc = "melt" =>
        \A r \in 1..Len(df) :
            /\ df[r].code # Str(<<"-">>)
            /\ df[r].source # Str(<<"-">>)
            /\ \A j \in 1..Len(df[r].vals) : df[r].vals[j] # Str(<<"-">>)

\* C10: cleaning an already cleaned table changes nothing.
C10_CleanIdempotent == pc = "melt" => CleanValues(df) = df

=============================================================================
